---- MODULE Spec2Model ----
(***************************************************************************)
(* A model of the pagerank library: helpers.process_data (text -> matrix   *)
(* and labels) and main.normalise / prepare_data / rank / isolate_results  *)
(* / append_labels / sort_result.                                          *)
(*                                                                         *)
(* A text is a sequence of one-character strings.  A matrix is a sequence  *)
(* of rows, a row a sequence of numbers.  A number of the numeric stages   *)
(* is an exact fraction <<n, d>> in lowest terms with d > 0; IEEE          *)
(* infinities and NaN, which numpy's division by zero produces, are        *)
(* <<1, 0>>, <<-1, 0>> and <<0, 0>>.  Rounding of binary64 is not          *)
(* modelled: arithmetic is exact.                                          *)
(***************************************************************************)
EXTENDS Integers, Sequences, FiniteSets, TLC

VARIABLES
    pc,                \* stage of the run
    source,            \* where data_string comes from: raw, or a serialised table
    data_string,       \* process_data: its arguments
    has_labels,
    convert_data,
    line_separator,
    column_separator,
    data,              \* the value the caller holds (main.py's data / result)
    labels,            \* the labels the caller holds
    call,              \* the last call: function, argument, parameter, result
    previous,          \* the sort_result call before the last one, on the same pairs
    epochs,            \* rank: its argument and its loop counter
    i,
    error              \* the exception that ended the run, "none" otherwise

vars == <<pc, source, data_string, has_labels, convert_data, line_separator,
          column_separator, data, labels, call, previous, epochs, i, error>>

----------------------------------------------------------------------------
(* Bounds of the model *)

MaxTextLen == 4
MaxN == 2
MaxEpochs == 2

----------------------------------------------------------------------------
(* Sequences *)

RECURSIVE SeqsUpTo(_, _)
SeqsUpTo(S, n) ==
    IF n = 0 THEN {<<>>}
    ELSE LET shorter == SeqsUpTo(S, n - 1)
         IN  shorter \cup {Append(s, x) : s \in {t \in shorter : Len(t) = n - 1}, x \in S}

SeqsOfLen(S, n) == {s \in SeqsUpTo(S, n) : Len(s) = n}

Reverse(s) == [k \in 1..Len(s) |-> s[Len(s) + 1 - k]]

Min(a, b) == IF a <= b THEN a ELSE b

----------------------------------------------------------------------------
(* Python strings *)

\* str.isspace for the characters of the model
IsSpace(c) == c \in {" ", "\t", "\n"}

\* str.strip(): leading and trailing whitespace removed
RECURSIVE LStrip(_)
LStrip(s) == IF s # <<>> /\ IsSpace(Head(s)) THEN LStrip(Tail(s)) ELSE s

Strip(s) == Reverse(LStrip(Reverse(LStrip(s))))

\* str.split(sep) for a non-empty sep: left to right, non-overlapping
RECURSIVE SplitAcc(_, _, _)
SplitAcc(rest, sep, cur) ==
    IF Len(rest) < Len(sep) THEN <<cur \o rest>>
    ELSE IF SubSeq(rest, 1, Len(sep)) = sep
         THEN <<cur>> \o SplitAcc(SubSeq(rest, Len(sep) + 1, Len(rest)), sep, <<>>)
         ELSE SplitAcc(Tail(rest), sep, Append(cur, Head(rest)))

Split(s, sep) == SplitAcc(s, sep, <<>>)

\* sep.join(parts)
RECURSIVE Join(_, _)
Join(parts, sep) ==
    IF parts = <<>> THEN <<>>
    ELSE IF Len(parts) = 1 THEN parts[1]
    ELSE parts[1] \o sep \o Join(Tail(parts), sep)

Digits == <<"0", "1", "2", "3", "4", "5", "6", "7", "8", "9">>

IsDigit(c) == \E k \in 1..10 : Digits[k] = c

DigitVal(c) == (CHOOSE k \in 1..10 : Digits[k] = c) - 1

RECURSIVE DecimalVal(_, _)
DecimalVal(s, acc) ==
    IF s = <<>> THEN acc ELSE DecimalVal(Tail(s), 10 * acc + DigitVal(Head(s)))

\* int(c) on a str: surrounding whitespace is ignored, then an optional sign and
\* at least one decimal digit; anything else raises ValueError
ParseInt(c) ==
    LET s    == Strip(c)
        neg  == s # <<>> /\ Head(s) = "-"
        sign == s # <<>> /\ Head(s) \in {"-", "+"}
        body == IF sign THEN Tail(s) ELSE s
    IN  IF body # <<>> /\ \A k \in 1..Len(body) : IsDigit(body[k])
        THEN [exc |-> "none", val |-> IF neg THEN 0 - DecimalVal(body, 0) ELSE DecimalVal(body, 0)]
        ELSE [exc |-> "ValueError", val |-> 0]

\* str(n) of an int
RECURSIVE NatToStr(_)
NatToStr(n) ==
    IF n < 10 THEN <<Digits[n + 1]>> ELSE Append(NatToStr(n \div 10), Digits[(n % 10) + 1])

IntToStr(n) == IF n < 0 THEN <<"-">> \o NatToStr(0 - n) ELSE NatToStr(n)

----------------------------------------------------------------------------
(* helpers.process_data *)

\* What a call does: it returns (exc = "none") or raises exc; msg tells the two
\* assertions and the two ValueErrors apart.
Return(matrix, ls) == [exc |-> "none", msg |-> "", matrix |-> matrix, labels |-> ls]

Raise(exc, msg) == [exc |-> exc, msg |-> msg, matrix |-> <<>>, labels |-> <<>>]

\* The pluggable convert_data.  "int" is the default, lambda x: int(x).
\* "decimal" stands for a caller's converter whose failure is not a ValueError
\* (decimal.Decimal raises InvalidOperation, an ArithmeticError); on the texts
\* of the model it accepts what int accepts.
ConvertData(convert, c) ==
    LET r == ParseInt(c)
    IN  IF convert = "int" \/ r.exc = "none" THEN r
        ELSE [exc |-> "InvalidOperation", val |-> 0]

\* (mutant) the ValueError of convert_data is not caught
CellValueUncaught(convert, c) ==
    IF c = <<>> THEN [exc |-> "none", val |-> 0] ELSE ConvertData(convert, c)

\* Lines 59-67: value = 0; a non-empty cell is converted, ValueError is passed
\* over, any other exception leaves the loop and the function.
CellValue(convert, c) ==
    IF c = <<>> THEN [exc |-> "none", val |-> 0]
    ELSE LET r == ConvertData(convert, c)
         IN  IF r.exc = "ValueError" THEN [exc |-> "none", val |-> 0] ELSE r

\* (mutant) the label is read but not popped: it stays the first cell
ParseRowLabelKept(r, hasLabels, convert, colSep) ==
    LET split == Split(r, colSep)
        vals  == [k \in 1..Len(split) |-> CellValue(convert, split[k])]
        bad   == {k \in 1..Len(split) : vals[k].exc # "none"}
    IN  [label |-> IF hasLabels THEN Strip(Head(split)) ELSE <<>>,
         row   |-> [k \in 1..Len(split) |-> vals[k].val],
         exc   |-> IF bad = {} THEN "none"
                   ELSE vals[CHOOSE k \in bad : \A m \in bad : k <= m].exc]

\* Lines 50-67 for one row r.
ParseRow(r, hasLabels, convert, colSep) ==
    LET split == Split(r, colSep)
        cells == IF hasLabels THEN Tail(split) ELSE split
        vals  == [k \in 1..Len(cells) |-> CellValue(convert, cells[k])]
        bad   == {k \in 1..Len(cells) : vals[k].exc # "none"}
    IN  [label |-> IF hasLabels THEN Strip(Head(split)) ELSE <<>>,
         row   |-> [k \in 1..Len(cells) |-> vals[k].val],
         exc   |-> IF bad = {} THEN "none"
                   ELSE vals[CHOOSE k \in bad : \A m \in bad : k <= m].exc]

\* (mutant) the assertion of line 45 is gone
SeparatorsUnchecked(lineSep, colSep) == TRUE

\* Line 45.
SeparatorsDiffer(lineSep, colSep) == lineSep # colSep

\* Lines 69-72: every row holds at least size cells.
TableChecked(table) == \A k \in 1..Len(table) : Len(table) <= Len(table[k])

IsRagged(table) == \E k \in 1..Len(table) : Len(table[k]) # Len(table[1])

\* The outcomes of process_data(text, hasLabels, convert, lineSep, colSep).
\* str.split raises ValueError on an empty separator.  np.array of rows of
\* unequal lengths raises ValueError (numpy >= 1.24) or builds an array of row
\* objects (older numpy): both are outcomes.
process_data(text, hasLabels, convert, lineSep, colSep) ==
    IF ~SeparatorsDiffer(lineSep, colSep) THEN {Raise("AssertionError", "separators")}
    ELSE IF lineSep = <<>> \/ colSep = <<>> THEN {Raise("ValueError", "empty separator")}
    ELSE LET rows   == Split(text, lineSep)
             parsed == [k \in 1..Len(rows) |-> ParseRow(rows[k], hasLabels, convert, colSep)]
             bad    == {k \in 1..Len(rows) : parsed[k].exc # "none"}
             table  == [k \in 1..Len(rows) |-> parsed[k].row]
             ls     == [k \in 1..Len(rows) |-> parsed[k].label]
         IN  IF bad # {}
             THEN {Raise(parsed[CHOOSE k \in bad : \A m \in bad : k <= m].exc, "convert_data")}
             ELSE IF ~TableChecked(table) THEN {Raise("AssertionError", "table")}
             ELSE IF IsRagged(table)
                  THEN {Raise("ValueError", "inhomogeneous shape"), Return(table, ls)}
                  ELSE {Return(table, ls)}

----------------------------------------------------------------------------
(* Numbers: exact fractions, with IEEE's inf, -inf and nan *)

Abs(x) == IF x < 0 THEN 0 - x ELSE x

Sign(x) == IF x < 0 THEN 0 - 1 ELSE IF x = 0 THEN 0 ELSE 1

RECURSIVE GCD(_, _)
GCD(a, b) == IF b = 0 THEN a ELSE GCD(b, a % b)

Frac(n, d) ==
    IF d = 0 THEN <<Sign(n), 0>>
    ELSE LET g == GCD(Abs(n), Abs(d))
         IN  <<(Sign(d) * n) \div g, Abs(d) \div g>>

Num(n) == <<n, 1>>

NaN == <<0, 0>>

IsFinite(x) == x[2] # 0

Neg(x) == <<0 - x[1], x[2]>>

Add(x, y) ==
    IF IsFinite(x) /\ IsFinite(y)
    THEN LET l == (x[2] \div GCD(x[2], y[2])) * y[2]
         IN  Frac(x[1] * (l \div x[2]) + y[1] * (l \div y[2]), l)
    ELSE IF x = NaN \/ y = NaN THEN NaN
    ELSE IF IsFinite(y) THEN x
    ELSE IF IsFinite(x) THEN y
    ELSE IF x = y THEN x ELSE NaN

Sub(x, y) == Add(x, Neg(y))

Mul(x, y) ==
    LET g1 == GCD(Abs(x[1]), y[2])
        g2 == GCD(Abs(y[1]), x[2])
    IN  IF IsFinite(x) /\ IsFinite(y)
        THEN Frac((x[1] \div g1) * (y[1] \div g2), (x[2] \div g2) * (y[2] \div g1))
        ELSE <<Sign(x[1]) * Sign(y[1]), 0>>

\* x / y of floats under numpy: x / 0 is inf, -inf or (0 / 0) nan
Div(x, y) == Mul(x, Frac(y[2], y[1]))

\* x < y of finite numbers, by their integer parts and then the remainders
RECURSIVE Less(_, _)
Less(x, y) ==
    LET qx == x[1] \div x[2]
        qy == y[1] \div y[2]
        rx == x[1] % x[2]
        ry == y[1] % y[2]
    IN  IF qx # qy THEN qx < qy
        ELSE IF ry = 0 THEN FALSE
        ELSE IF rx = 0 THEN TRUE
        ELSE Less(<<y[2], ry>>, <<x[2], rx>>)

RECURSIVE SumSeq(_)
SumSeq(s) == IF s = <<>> THEN Num(0) ELSE Add(Head(s), SumSeq(Tail(s)))

----------------------------------------------------------------------------
(* numpy arrays: a matrix is a sequence of rows *)

Rows(m) == Len(m)

Cols(m) == IF m = <<>> THEN 0 ELSE Len(m[1])

\* np.array(table) of a table of ints, as the numbers of the numeric stages
ToArray(table) == [r \in 1..Len(table) |-> [c \in 1..Len(table[r]) |-> Num(table[r][c])]]

Column(m, c) == [r \in 1..Rows(m) |-> m[r][c]]

\* matrix.sum(axis=0)[c]
ColSum(m, c) == SumSeq(Column(m, c))

AllFinite(m) == \A r \in 1..Rows(m) : \A c \in 1..Len(m[r]) : IsFinite(m[r][c])

\* a.dot(b)
Dot(a, b) ==
    [r \in 1..Rows(a) |->
        [c \in 1..Cols(b) |-> SumSeq([k \in 1..Cols(a) |-> Mul(a[r][k], b[k][c])])]]

----------------------------------------------------------------------------
(* main.py *)

Returned(value) == [exc |-> "none", value |-> value]

Raised(exc) == [exc |-> exc, value |-> <<>>]

\* (mutant) matrix.sum(axis=1): each entry is divided by the sum of its row
normaliseByRow(matrix) ==
    [r \in 1..Rows(matrix) |->
        [c \in 1..Cols(matrix) |-> Div(matrix[r][c], SumSeq(matrix[r]))]]

\* matrix / matrix.sum(axis=0): the sum of column c divides each entry of column c
normalise(matrix) ==
    [r \in 1..Rows(matrix) |->
        [c \in 1..Cols(matrix) |-> Div(matrix[r][c], ColSum(matrix, c))]]

\* Lines 42 and 53: assert data.shape[0] == data.shape[1]
IsSquare(m) == Rows(m) = Cols(m)

\* (mutant) the uniform part is not divided by the dimension
BlendUndivided(m, proportion) ==
    [r \in 1..Rows(m) |->
        [c \in 1..Cols(m) |-> Add(Mul(proportion, m[r][c]), Sub(Num(1), proportion))]]

\* proportion * data + (1 - proportion) * (1 / data.shape[0])
Blend(m, proportion) ==
    LET rest == Mul(Sub(Num(1), proportion), Div(Num(1), Num(Rows(m))))
    IN  [r \in 1..Rows(m) |->
            [c \in 1..Cols(m) |-> Add(Mul(proportion, m[r][c]), rest)]]

\* (mutant) proportion weighs the uniform part instead of the data
prepare_dataSwapped(m, proportion) ==
    IF ~IsSquare(m) THEN Raised("AssertionError")
    ELSE Returned(Blend(m, Sub(Num(1), proportion)))

prepare_data(m, proportion) ==
    IF ~IsSquare(m) THEN Raised("AssertionError") ELSE Returned(Blend(m, proportion))

\* (mutant) data * data, numpy's elementwise product
SquaredElementwise(m) ==
    [r \in 1..Rows(m) |-> [c \in 1..Cols(m) |-> Mul(m[r][c], m[r][c])]]

\* Line 56, one pass of the loop of rank
Squared(m) == Dot(m, m)

\* results[:, 0]
isolate_results(results) == Column(results, 1)

\* (mutant) zip(results, labels)
append_labelsSwapped(results, ls) ==
    [k \in 1..Min(Len(ls), Len(results)) |-> <<results[k], ls[k]>>]

\* zip(labels, results)
append_labels(results, ls) ==
    [k \in 1..Min(Len(ls), Len(results)) |-> <<ls[k], results[k]>>]

\* The key functions of the model: the default lambda x: x[1], and a caller's
\* lambda x: -x[1].
KeyOf(key, x) == IF key = "score" THEN x[2] ELSE Neg(x[2])

\* x goes behind every element whose key is not greater: a stable insertion
RECURSIVE Insert(_, _, _)
Insert(s, x, key) ==
    IF s = <<>> THEN <<x>>
    ELSE IF Less(KeyOf(key, x), KeyOf(key, Head(s))) THEN <<x>> \o s
    ELSE <<Head(s)>> \o Insert(Tail(s), x, key)

RECURSIVE StableSort(_, _)
StableSort(s, key) ==
    IF s = <<>> THEN <<>>
    ELSE Insert(StableSort(SubSeq(s, 1, Len(s) - 1), key), s[Len(s)], key)

\* (mutant) reverse is not handed to sorted
sort_resultAscending(results, reverse, key) == StableSort(results, key)

\* sorted(results, key=key, reverse=reverse): CPython reverses the list, sorts
\* it stably in ascending order and reverses it again when reverse is set
sort_result(results, reverse, key) ==
    IF reverse THEN Reverse(StableSort(Reverse(results), key))
    ELSE StableSort(results, key)

----------------------------------------------------------------------------
(* The inputs of the model *)

TextChars == {"A", " ", "1", "\t", "\n"}

\* every text of at most MaxTextLen characters
Texts == SeqsUpTo(TextChars, MaxTextLen)

Converters == {"int", "decimal"}

\* <<line_separator, column_separator>>: the defaults, an equal pair, a digit
\* and a two-character column separator, an empty line separator
SepPairs ==
    { <<<<"\n">>, <<"\t">>>>,
      <<<<"\t">>, <<"\t">>>>,
      <<<<"\n">>, <<"1">>>>,
      <<<<"\n">>, <<"1", "1">>>>,
      <<<<>>, <<"\t">>>> }

\* The tables that are serialised: n x n, one value everywhere but for one cell
\* or for the diagonal
Cells == {0 - 1, 0, 1, 10}

Tables(n) ==
    { [r \in 1..n |-> [c \in 1..n |-> IF r = p[1] /\ c = p[2] THEN w ELSE v]] :
        v \in Cells, w \in Cells, p \in (1..n) \X (1..n) }
    \cup { [r \in 1..n |-> [c \in 1..n |-> IF r = c THEN w ELSE v]] : v \in Cells, w \in Cells }

\* Their labels: "A", "B", "C", ... but for at most one row, whose label is
\* empty, a duplicate, surrounded by whitespace or holds a digit
LabelSet == { <<>>, <<"A">>, <<" ", "A">>, <<"A", " ">>, <<"A", "1">> }

Letters == <<"A", "B", "C", "D", "E", "F", "G", "H">>

LabelSeqs(n) ==
    { [r \in 1..n |-> IF r = p THEN l ELSE <<Letters[r]>>] : l \in LabelSet, p \in 0..n }

\* label, column separator, cells joined by the column separator; rows joined
\* by the line separator
Serialise(m, ls, lineSep, colSep) ==
    Join([r \in 1..Len(m) |->
            Join(<<ls[r]>> \o [c \in 1..Len(m[r]) |-> IntToStr(m[r][c])], colSep)],
         lineSep)

\* the 0/1 link matrices of r rows and c columns
LinkMatrices(r, c) == SeqsOfLen(SeqsOfLen({0, 1}, c), r)

Proportions == {Num(0), Frac(1, 2), Num(1)}

Keys == {"score", "negated score"}

\* range(n) as labels
RangeLabels(n) == [k \in 1..n |-> IntToStr(k - 1)]

----------------------------------------------------------------------------
(* The state machine: a caller that runs the stages on what it holds *)

NoCall == [fn |-> "none", arg |-> <<>>, param |-> <<>>, out |-> <<>>, msg |-> ""]

Called(fn, arg, param, out, msg) ==
    [fn |-> fn, arg |-> arg, param |-> param, out |-> out, msg |-> msg]

NoText ==
    /\ source = [kind |-> "memory", matrix |-> <<>>, labels |-> <<>>]
    /\ data_string = <<>>
    /\ has_labels = TRUE
    /\ convert_data = "int"
    /\ line_separator = <<"\n">>
    /\ column_separator = <<"\t">>

Idle ==
    /\ call = NoCall
    /\ previous = NoCall
    /\ epochs = 0
    /\ i = 0
    /\ error = "none"

\* the caller holds a text
InitText ==
    /\ pc = "text"
    /\ source = [kind |-> "raw", matrix |-> <<>>, labels |-> <<>>]
    /\ data_string \in Texts
    /\ has_labels \in BOOLEAN
    /\ convert_data \in Converters
    /\ \E seps \in SepPairs : line_separator = seps[1] /\ column_separator = seps[2]
    /\ data = <<>>
    /\ labels = <<>>
    /\ Idle

\* the caller holds the serialisation of a table and its labels
InitSerialised ==
    /\ pc = "text"
    /\ \E n \in 0..MaxN : \E m \in Tables(n) : \E ls \in LabelSeqs(n) :
       \E seps \in SepPairs :
          /\ source = [kind |-> "serialised", matrix |-> m, labels |-> ls]
          /\ data_string = Serialise(m, ls, seps[1], seps[2])
          /\ line_separator = seps[1]
          /\ column_separator = seps[2]
    /\ has_labels = TRUE
    /\ convert_data = "int"
    /\ data = <<>>
    /\ labels = <<>>
    /\ Idle

\* the caller holds a matrix (main.py's example builds one in memory)
InitMatrix ==
    /\ pc = "matrix"
    /\ NoText
    /\ \E r \in 1..MaxN : \E c \in 1..MaxN : \E m \in LinkMatrices(r, c) : data = ToArray(m)
    /\ labels = <<>>
    /\ Idle

Init == InitText \/ InitSerialised \/ InitMatrix

TextArgs == <<source, data_string, has_labels, convert_data, line_separator, column_separator>>

\* the arguments of process_data go out of scope
DropText ==
    /\ source' = [kind |-> "memory", matrix |-> <<>>, labels |-> <<>>]
    /\ data_string' = <<>>
    /\ has_labels' = TRUE
    /\ convert_data' = "int"
    /\ line_separator' = <<"\n">>
    /\ column_separator' = <<"\t">>

ProcessData ==
    /\ pc = "text"
    /\ \E out \in process_data(data_string, has_labels, convert_data,
                               line_separator, column_separator) :
          /\ pc' = IF out.exc # "none" THEN "failed"
                   ELSE IF IsRagged(out.matrix) THEN "object array" ELSE "parsed"
          /\ data' = ToArray(out.matrix)
          /\ labels' = out.labels
          /\ error' = out.exc
          /\ call' = Called("process_data", data_string, <<>>, out.matrix, out.msg)
    /\ UNCHANGED <<TextArgs, previous, epochs, i>>

\* The caller ranks link matrices: those it holds and those it parsed.
IsLinkMatrix(m) == \A r \in 1..Rows(m) : \A c \in 1..Cols(m) : m[r][c] \in {Num(0), Num(1)}

HoldsRaw == pc = "matrix" \/ (pc = "parsed" /\ IsLinkMatrix(data))

Normalise ==
    /\ HoldsRaw
    /\ pc' = "normalised"
    /\ data' = normalise(data)
    /\ call' = Called("normalise", data, <<>>, data', "")
    /\ DropText
    /\ UNCHANGED <<labels, previous, epochs, i, error>>

PrepareData ==
    /\ HoldsRaw \/ pc = "normalised"
    /\ \E proportion \in Proportions :
          LET out == prepare_data(data, proportion)
          IN  /\ pc' = IF out.exc = "none" THEN "prepared" ELSE "failed"
              /\ data' = out.value
              /\ error' = out.exc
              /\ call' = Called("prepare_data", data, proportion, out.value, "")
    /\ DropText
    /\ UNCHANGED <<labels, previous, epochs, i>>

\* rank: the assertion, then the loop is entered
RankCall ==
    /\ HoldsRaw \/ pc = "prepared"
    /\ \E e \in 0..MaxEpochs :
          /\ epochs' = e
          /\ call' = Called("rank", data, e, <<>>, "")
    /\ i' = 0
    /\ IF IsSquare(data)
       THEN pc' = "rank loop" /\ UNCHANGED <<data, error>>
       ELSE pc' = "failed" /\ data' = <<>> /\ error' = "AssertionError"
    /\ DropText
    /\ UNCHANGED <<labels, previous>>

\* for i in range(epochs): data = data.dot(data)
RankStep ==
    /\ pc = "rank loop"
    /\ i < epochs
    /\ data' = Squared(data)
    /\ i' = i + 1
    /\ UNCHANGED <<pc, TextArgs, labels, call, previous, epochs, error>>

\* return data
RankReturn ==
    /\ pc = "rank loop"
    /\ ~(i < epochs)
    /\ pc' = "ranked"
    /\ call' = [call EXCEPT !.out = data]
    /\ UNCHANGED <<TextArgs, data, labels, previous, epochs, i, error>>

IsolateResults ==
    /\ pc = "ranked"
    /\ pc' = "isolated"
    /\ data' = isolate_results(data)
    /\ call' = Called("isolate_results", data, <<>>, data', "")
    /\ UNCHANGED <<TextArgs, labels, previous, epochs, i, error>>

\* the labels are those of process_data or a range the caller builds
AppendLabels ==
    /\ pc = "isolated"
    /\ \E ls \in {labels} \cup {RangeLabels(n) : n \in 0..(MaxN + 1)} :
          /\ data' = append_labels(data, ls)
          /\ call' = Called("append_labels", data, ls, data', "")
    /\ pc' = "labelled"
    /\ UNCHANGED <<TextArgs, labels, previous, epochs, i, error>>

\* (how sorted orders nan depends on the comparisons timsort makes: the
\* caller sorts finite scores)
SortResult ==
    /\ pc = "labelled"
    /\ \A k \in 1..Len(data) : IsFinite(data[k][2])
    /\ \E reverse \in BOOLEAN : \E key \in Keys :
          /\ data' = sort_result(data, reverse, key)
          /\ call' = Called("sort_result", data, <<reverse, key>>, data', "")
    /\ pc' = "sorted"
    /\ UNCHANGED <<TextArgs, labels, previous, epochs, i, error>>

\* the caller sorts the same pairs once more, in the other direction
SortAgain ==
    /\ pc = "sorted"
    /\ previous = NoCall
    /\ LET reverse == ~call.param[1]
           key     == call.param[2]
       IN  /\ data' = sort_result(call.arg, reverse, key)
           /\ call' = Called("sort_result", call.arg, <<reverse, key>>, data', "")
    /\ previous' = call
    /\ UNCHANGED <<pc, TextArgs, labels, epochs, i, error>>

Next ==
    \/ ProcessData
    \/ Normalise
    \/ PrepareData
    \/ RankCall
    \/ RankStep
    \/ RankReturn
    \/ IsolateResults
    \/ AppendLabels
    \/ SortResult
    \/ SortAgain

Spec == Init /\ [][Next]_vars

----------------------------------------------------------------------------
(* Properties of process_data *)

Parsed == call.fn = "process_data"

\* the separators are a configuration str.split accepts
SeparatorsUsable ==
    /\ line_separator # column_separator
    /\ line_separator # <<>>
    /\ column_separator # <<>>

\* how often sep occurs in s, overlapping occurrences counted
Occurrences(s, sep) ==
    Cardinality({k \in 1..(Len(s) - Len(sep) + 1) : SubSeq(s, k, k + Len(sep) - 1) = sep})

\* the text is the serialisation of an n x n table, n >= 1, whose labels have no
\* surrounding whitespace, and each separator occurs in it only where the
\* serialiser wrote it: n - 1 line separators, n * n column separators
CleanSerialisation ==
    LET n == Len(source.matrix)
    IN  /\ source.kind = "serialised"
        /\ n >= 1
        /\ SeparatorsUsable
        /\ \A r \in 1..n : Strip(source.labels[r]) = source.labels[r]
        /\ Occurrences(data_string, line_separator) = n - 1
        /\ Occurrences(data_string, column_separator) = n * n

ParsedBack == error = "none" /\ call.out = source.matrix /\ labels = source.labels

\* C1 as stated, for any list of labels: the serialisation of an n x n integer
\* table (n >= 1) and of any n labels, with distinct usable separators that
\* occur only where the serialiser wrote them, parses back to the table and
\* the labels.
C1_RoundTripOfAnyLabels ==
    LET n == Len(source.matrix)
    IN  (/\ Parsed /\ source.kind = "serialised" /\ n >= 1 /\ SeparatorsUsable
         /\ Occurrences(data_string, line_separator) = n - 1
         /\ Occurrences(data_string, column_separator) = n * n) => ParsedBack

\* C1, amended: a clean serialisation (n >= 1, usable separators that occur only
\* where the serialiser wrote them, labels without surrounding whitespace)
\* parses back to exactly the table and exactly the labels.
C1_RoundTrip == (Parsed /\ CleanSerialisation) => ParsedBack

\* a 2 x 2 table with a negative and a two-digit cell has been parsed back
C1_Witness ==
    /\ Parsed /\ CleanSerialisation /\ pc = "parsed"
    /\ Len(source.matrix) = 2
    /\ \E r \in 1..2 : \E c \in 1..2 : source.matrix[r][c] < 0
    /\ \E r \in 1..2 : \E c \in 1..2 : source.matrix[r][c] = 10

\* the rows of the text and the data cells of row r, as lines 46-57 split them
TextRows == Split(data_string, line_separator)

DataCells(r) ==
    LET split == Split(TextRows[r], column_separator)
    IN  IF has_labels THEN Tail(split) ELSE split

DefaultSeparators == line_separator = <<"\n">> /\ column_separator = <<"\t">>

\* C2 as stated, for the default separators and the default int conversion:
\* process_data fails with the malformed-table error or returns n rows of
\* exactly n data cells and n labels, n the number of rows of the text.
C2_SquareOrMalformed ==
    (Parsed /\ DefaultSeparators /\ convert_data = "int") =>
        \/ error = "AssertionError" /\ call.msg = "table"
        \/ /\ error = "none"
           /\ Len(call.out) = Len(TextRows)
           /\ Len(labels) = Len(TextRows)
           /\ \A r \in 1..Len(call.out) : Len(call.out[r]) = Len(TextRows)

----------------------------------------------------------------------------
(* Properties of the numeric stages *)

Shape(m) == <<Rows(m), Cols(m)>>

\* C4: process_data with equal separators fails on the assertion of line 45
\* with no row parsed, prepare_data and rank on a matrix that is not square fail
\* on their assertion with nothing computed; a run that raised holds no result,
\* and a run holds no error unless it raised.
C4_FailFast ==
    /\ (Parsed /\ line_separator = column_separator) =>
          /\ pc = "failed" /\ error = "AssertionError" /\ call.msg = "separators"
          /\ call.out = <<>> /\ data = <<>> /\ labels = <<>>
    /\ (call.fn = "prepare_data" /\ ~IsSquare(call.arg)) =>
          pc = "failed" /\ error = "AssertionError" /\ call.out = <<>> /\ data = <<>>
    /\ (call.fn = "rank" /\ ~IsSquare(call.arg)) =>
          pc = "failed" /\ error = "AssertionError" /\ call.out = <<>> /\ data = <<>> /\ i = 0
    /\ pc = "failed" <=> error # "none"
    /\ pc = "failed" => data = <<>>

\* a run of the stages on a parsed table that is not square ended in
\* prepare_data's assertion
C4_Witness ==
    /\ call.fn = "prepare_data" /\ ~IsSquare(call.arg) /\ pc = "failed"
    /\ labels # <<>>

NoZeroColumn(m) == \A c \in 1..Cols(m) : ColSum(m, c) # Num(0)

ColumnsSumToOne(m) == \A c \in 1..Cols(m) : ColSum(m, c) = Num(1)

\* C5: when no column of M sums to zero, normalise(M) has the shape of M, each
\* entry times the sum of its column of M is the entry of M, and every column
\* sums to 1.
C5_NormaliseColumnStochastic ==
    (call.fn = "normalise" /\ NoZeroColumn(call.arg)) =>
        /\ Shape(call.out) = Shape(call.arg)
        /\ \A r \in 1..Rows(call.arg) : \A c \in 1..Cols(call.arg) :
              Mul(call.out[r][c], ColSum(call.arg, c)) = call.arg[r][c]
        /\ ColumnsSumToOne(call.out)

\* a 2 x 2 matrix whose columns sum to 1 and to 2 has been normalised
C5_Witness ==
    /\ call.fn = "normalise" /\ NoZeroColumn(call.arg)
    /\ Shape(call.arg) = <<2, 2>>
    /\ ColSum(call.arg, 1) = Num(1) /\ ColSum(call.arg, 2) = Num(2)

InUnitInterval(x) == ~Less(x, Num(0)) /\ ~Less(Num(1), x)

\* C6: prepare_data of a column-stochastic n x n matrix with a proportion in
\* [0, 1] returns an n x n matrix whose columns all sum to 1.
C6_PreparedColumnStochastic ==
    (/\ call.fn = "prepare_data" /\ IsSquare(call.arg) /\ AllFinite(call.arg)
     /\ ColumnsSumToOne(call.arg) /\ InUnitInterval(call.param)) =>
        /\ error = "none"
        /\ Shape(call.out) = Shape(call.arg)
        /\ ColumnsSumToOne(call.out)

\* a column-stochastic 2 x 2 matrix with unequal columns has been damped by 1/2
C6_Witness ==
    /\ call.fn = "prepare_data" /\ Shape(call.arg) = <<2, 2>> /\ AllFinite(call.arg)
    /\ ColumnsSumToOne(call.arg) /\ call.param = Frac(1, 2)
    /\ call.arg[1][1] # call.arg[1][2]
    /\ pc = "prepared"

\* 2^e, and m multiplied k times with itself, one factor at a time
RECURSIVE Exp2(_)
Exp2(e) == IF e = 0 THEN 1 ELSE 2 * Exp2(e - 1)

RECURSIVE Power(_, _)
Power(m, k) == IF k = 1 THEN m ELSE Dot(Power(m, k - 1), m)

\* C7: rank(M, epochs) on a square matrix makes epochs squarings and returns
\* M^(2^epochs), of the shape of M: in the loop the counter never passes
\* epochs and the matrix is M^(2^i); on return i = epochs and the result is
\* M^(2^epochs), which is M for epochs = 0.
C7_RankIsPowerOfTwo ==
    (call.fn = "rank" /\ IsSquare(call.arg)) =>
        /\ pc = "rank loop" =>
              /\ 0 <= i /\ i <= epochs /\ epochs = call.param
              /\ data = Power(call.arg, Exp2(i))
        /\ pc = "ranked" =>
              /\ i = epochs /\ epochs = call.param
              /\ call.out = Power(call.arg, Exp2(epochs))
              /\ Shape(call.out) = Shape(call.arg)
              /\ data = call.out
              /\ epochs = 0 => call.out = call.arg
        /\ pc \in {"rank loop", "ranked"}

\* rank returned the fourth power of a 2 x 2 matrix that differs from its cube
C7_Witness ==
    /\ call.fn = "rank" /\ pc = "ranked" /\ epochs = 2
    /\ Shape(call.arg) = <<2, 2>>
    /\ call.out # Power(call.arg, 3)
    /\ call.out # call.arg

\* C8: on a square n x n matrix of finite entries prepare_data with proportion
\* 1 returns the matrix, and with proportion 0 the matrix of entries 1/n.
C8_DampingBounds ==
    (call.fn = "prepare_data" /\ IsSquare(call.arg) /\ AllFinite(call.arg)) =>
        /\ call.param = Num(1) => call.out = call.arg
        /\ call.param = Num(0) =>
              /\ Shape(call.out) = Shape(call.arg)
              /\ \A r \in 1..Rows(call.out) : \A c \in 1..Cols(call.out) :
                    call.out[r][c] = Frac(1, Rows(call.arg))

\* a 2 x 2 matrix with unequal entries has been prepared with proportion 0
C8_Witness ==
    /\ call.fn = "prepare_data" /\ Shape(call.arg) = <<2, 2>> /\ AllFinite(call.arg)
    /\ call.param = Num(0)
    /\ call.arg[1][1] # call.arg[1][2]
    /\ pc = "prepared"

----------------------------------------------------------------------------
(* Properties of the extraction *)

Count(s, x) == Cardinality({k \in 1..Len(s) : s[k] = x})

IsPermutation(s, t) ==
    /\ Len(s) = Len(t)
    /\ \A k \in 1..Len(s) : Count(s, s[k]) = Count(t, s[k])

NonIncreasing(s) == \A k \in 1..(Len(s) - 1) : ~Less(s[k][2], s[k + 1][2])

DistinctScores(s) == \A k \in 1..Len(s) : \A m \in 1..Len(s) : k # m => s[k][2] # s[m][2]

DefaultSort(c) == c.fn = "sort_result" /\ c.param = <<TRUE, "score">>

\* C9: sort_result with its default arguments returns a permutation of the
\* pairs in non-increasing order of the scores, and sort_result with
\* reverse=False on the same pairs, their scores distinct, returns the reverse
\* of that list.
C9_SortOrder ==
    /\ DefaultSort(call) => IsPermutation(call.out, call.arg) /\ NonIncreasing(call.out)
    /\ (/\ DefaultSort(previous)
        /\ call.fn = "sort_result" /\ call.param = <<FALSE, "score">>
        /\ DistinctScores(call.arg)) =>
           call.arg = previous.arg /\ call.out = Reverse(previous.out)

\* pairs of distinct scores, not in descending order, were sorted with
\* the defaults and then with reverse=False
C9_Witness ==
    /\ DefaultSort(previous)
    /\ call.fn = "sort_result" /\ call.param = <<FALSE, "score">>
    /\ DistinctScores(call.arg)
    /\ Len(call.arg) >= 2
    /\ previous.out # previous.arg

\* C10: append_labels returns min(len(scores), len(labels)) pairs, the k-th
\* being (labels[k], scores[k]), and raises nothing whatever the two lengths.
C10_AppendLabelsTruncates ==
    call.fn = "append_labels" =>
        /\ error = "none" /\ pc = "labelled"
        /\ Len(call.out) = Min(Len(call.arg), Len(call.param))
        /\ \A k \in 1..Len(call.out) : call.out[k] = <<call.param[k], call.arg[k]>>

\* two scores were paired with the first two of three labels
C10_Witness ==
    /\ call.fn = "append_labels"
    /\ Len(call.arg) = 2 /\ Len(call.param) = 3 /\ Len(call.out) = 2

====
